---- MODULE Spec2Model ----
(***************************************************************************)
(* Model of scripts/generate_assets.py: the asset pipeline                 *)
(*   validate_config -> parse_config -> generate_pixel_grid -> pack_sprites *)
(*   -> write_output, as driven by main().                                  *)
(*                                                                         *)
(* Representation choices                                                  *)
(*  - A Python dict (insertion ordered) is a sequence of entries with      *)
(*    distinct keys; assigning to an existing key keeps its position.      *)
(*  - An asset name is a sequence of tokens; the token "_variant_" stands  *)
(*    for that substring, so that `"_variant_" in name` and                *)
(*    `name.split("_variant_")[0]` are computed, not assumed.              *)
(*  - A colour is the RGBA tuple hex_to_rgba returns.                      *)
(*  - Anchors are in tenths (0.5 is 5); contrast thresholds are in tenths  *)
(*    (1.5 is 15); luminance is in units of 1/10000.                       *)
(*  - An optional JSON field is <<>> when absent and <<v>> when present    *)
(*    (the anchor, a pair, is <<>> or <<x, y>>).                           *)
(***************************************************************************)
EXTENDS Integers, Sequences, FiniteSets, TLC

VARIABLES
    pc,             \* position of the run: main()'s statement, or pack_sprites'
    config_data,    \* the loaded JSON document's "assets" mapping
    errors,         \* main: errors = validate_config(config_data)
    configs,        \* main: configs = parse_config(config_data)
    all_sprites,    \* main: all_sprites, name -> grid
    grids,          \* number of generate_pixel_grid invocations so far
    calls,          \* the pipeline functions invoked so far
    sorted_sprites, \* pack_sprites: sorted_sprites
    idx,            \* pack_sprites: position of the for loop in sorted_sprites
    atlas,          \* pack_sprites: the atlas image (its width and height)
    atlas_size,     \* pack_sprites: atlas_size
    current_x,      \* pack_sprites: current_x
    current_y,      \* pack_sprites: current_y
    row_height,     \* pack_sprites: row_height
    frames,         \* pack_sprites: frames, name -> frame record
    manifest,       \* write_output: the manifest written (<<>> while none is)
    exit_code,      \* the process exit code (-1 while running)
    hex_color,      \* rotate_hue: hex_color, <<c>> for a call on the colour c
    degrees,        \* rotate_hue: degrees
    new_rgb,        \* rotate_hue: the colour returned, <<c>> once it has
    tile,           \* generate_pixel_grid: config, <<c>> for calls on the tile c
    str_hash,       \* per process: the interpreter's hash() of each name
    seed,           \* per process: generate_pixel_grid's seed, <<s>> once derived
    grid_config,    \* generate_pixel_grid: config, <<c>> for a call on the asset c
    grid_variant,   \* generate_pixel_grid: variant_idx
    grid            \* generate_pixel_grid: the grid returned, <<g>> once it has

\* The variables of a call of rotate_hue on its own.
huevars == <<hex_color, degrees, new_rgb>>

\* The variables of the seed derivation of generate_pixel_grid in two processes.
seedvars == <<tile, str_hash, seed>>

\* The variables of a call of generate_pixel_grid on its own.
gridvars == <<grid_config, grid_variant, grid>>

unitvars == <<huevars, seedvars, gridvars>>

vars == <<pc, config_data, errors, configs, all_sprites, grids, calls,
          sorted_sprites, idx, atlas, atlas_size, current_x, current_y,
          row_height, frames, manifest, exit_code, unitvars>>

packvars == <<sorted_sprites, idx, atlas, atlas_size, current_x, current_y,
              row_height, frames>>

(***************************************************************************)
(* Bounds of the model                                                     *)
(***************************************************************************)
MaxAssets == 2      \* assets in a configuration document
MaxVariants == 2    \* largest "variants" value of an asset
MaxPalette == 3     \* colours in a palette
MaxSprites == 3     \* sprites handed to pack_sprites directly

Max(a, b) == IF a >= b THEN a ELSE b
Min(a, b) == IF a <= b THEN a ELSE b

RECURSIVE Pow2(_)
Pow2(k) == IF k <= 0 THEN 1 ELSE 2 * Pow2(k - 1)

(***************************************************************************)
(* Colour math                                                             *)
(***************************************************************************)
\* The colours the model draws palettes from, as hex_to_rgba returns them:
\* "#000000", "#313131", "#5a5a5a".
Black == <<0, 0, 0, 255>>
Grey49 == <<49, 49, 49, 255>>
Grey90 == <<90, 90, 90, 255>>
Colours == {Black, Grey49, Grey90}

\* luminance's per-channel transform of the 8-bit value c,
\*   c/255/12.92 if c/255 <= 0.03928 else ((c/255 + 0.055)/1.055) ** 2.4,
\* in units of 1/10000, tabulated for the channel values of Colours.
LinearChannel(c) ==
    CASE c = 0 -> 0
      [] c = 49 -> 307
      [] c = 90 -> 1022
      [] c = 255 -> 10000

\* luminance(hex_color), in units of 1/10000.
luminance(colour) ==
    (2126 * LinearChannel(colour[1]) + 7152 * LinearChannel(colour[2])
        + 722 * LinearChannel(colour[3])) \div 10000

\* check_contrast_ratio(color1, color2): the ratio (lighter + 0.05) / (darker + 0.05)
\* as the pair <<numerator, denominator>>.
check_contrast_ratio(color1, color2) ==
    LET l1 == luminance(color1)
        l2 == luminance(color2)
        lighter == Max(l1, l2)
        darker == Min(l1, l2)
    IN  <<lighter + 500, darker + 500>>

\* ratio < min_contrast, for a ratio <<num, den>> and a threshold in tenths.
RatioBelow(ratio, tenths) == ratio[1] * 10 < tenths * ratio[2]

\* f"{ratio:.1f}": the ratio rounded to tenths.
FormatRatio(ratio) == (ratio[1] * 20 + ratio[2]) \div (2 * ratio[2])

\* int(v * 255) for a float v whose exact value is num / (255 * den), num >= 0:
\* the floor of num / den. When num / den is a whole number k > 0 the float
\* product can fall just below k, and then int() yields k - 1.
TruncatedChannel(num, den) ==
    IF num % den = 0 /\ num \div den > 0
    THEN {num \div den - 1, num \div den}
    ELSE {num \div den}

\* rotate_hue's hue before the rotation, as the numerator of h / 60 over delta:
\* ((g - b) / delta) % 6, (b - r) / delta + 2 or (r - g) / delta + 4.
HueNumerator(r, g, b) ==
    LET cmax == Max(r, Max(g, b))
        cmin == Min(r, Min(g, b))
        delta == cmax - cmin
    IN  IF delta = 0 THEN 0
        ELSE IF cmax = r THEN (g - b) % (6 * delta)
        ELSE IF cmax = g THEN (b - r) + 2 * delta
        ELSE (r - g) + 4 * delta

\* hsl_to_rgb's hue_to_rgb(p, q, t), times 255 and truncated. p and q are P and Q
\* over 510 * cmax, t is T over 12 * delta.
HueToChannel(P, Q, T, cmax, delta) ==
    LET t1 == IF T < 0 THEN T + 12 * delta ELSE T
        t2 == IF t1 > 12 * delta THEN t1 - 12 * delta ELSE t1
        num == IF t2 < 2 * delta THEN 2 * P * delta + (Q - P) * t2
               ELSE IF t2 < 6 * delta THEN 2 * Q * delta
               ELSE IF t2 < 8 * delta THEN 2 * P * delta + (Q - P) * (8 * delta - t2)
               ELSE 2 * P * delta
    IN  TruncatedChannel(num, 4 * cmax * delta)

\* rotate_hue(hex_color, degrees) for degrees a multiple of 30 (the per-variant
\* step): the colours it can return, as hex_to_rgba reads the returned #rrggbb.
\* s is delta / cmax (0 when cmax is 0), l is (cmax + cmin) / 2, the hue is
\* (h + degrees) % 360, and hsl_to_rgb(h / 360, s, l) converts back:
\* q = l * (1 + s) if l < 0.5 else l + s - l * s, p = 2 * l - q.
rotate_hue(colour, deg) ==
    LET r == colour[1]
        g == colour[2]
        b == colour[3]
        cmax == Max(r, Max(g, b))
        cmin == Min(r, Min(g, b))
        delta == cmax - cmin
        L == cmax + cmin
        H == (2 * HueNumerator(r, g, b) + (deg \div 30) * delta) % (12 * delta)
        Q == IF L < 255 THEN L * (cmax + delta) ELSE L * cmax + delta * (510 - L)
        P == 2 * L * cmax - Q
    IN  IF cmax = 0 \/ delta = 0
        THEN {<<v, v, v, 255>> : v \in TruncatedChannel(L, 2)}
        ELSE {<<nr, ng, nb, 255>> :
                nr \in HueToChannel(P, Q, H + 4 * delta, cmax, delta),
                ng \in HueToChannel(P, Q, H, cmax, delta),
                nb \in HueToChannel(P, Q, H - 4 * delta, cmax, delta)}

(***************************************************************************)
(* generate_pixel_grid: the pixels of the shape family                     *)
(***************************************************************************)
\* A grid is indexed as in the source: g[y][x] is the RGBA pixel of row y and
\* column x, both counted from 0. Colours are RGBA as hex_to_rgba returns them,
\* so an 8-digit colour has its own alpha and a 6-digit one alpha 255.
OutlinedTypes == {"prop", "furniture", "clutter"}
ShapeTypes == {"npc"} \cup OutlinedTypes

\* Step 2: the palettes the call may work with. A variant of an npc has every
\* colour rotated by 30 degrees per variant.
VariantPalettes(config, variant_idx) ==
    IF variant_idx > 0 /\ config.type = "npc"
    THEN LET n == Len(config.palette)
             rotated(i) == rotate_hue(config.palette[i], 30 * variant_idx)
         IN  {p \in [1..n -> UNION {rotated(i) : i \in 1..n}] :
                 \A i \in 1..n : p[i] \in rotated(i)}
    ELSE {config.palette}

\* The colour of an npc's body: palette[1], or else rotate_hue(base_color, 30).
BodyColours(palette) ==
    IF Len(palette) > 1 THEN {palette[2]} ELSE rotate_hue(palette[1], 30)

\* The same test with a border of one pixel.
InInsetWide(x, y, width, height) ==
    /\ 1 <= x /\ x < width - 1
    /\ 1 <= y /\ y < height - 1

\* The shape loop's test 2 <= x < width - 2 and 2 <= y < height - 2.
InInset(x, y, width, height) ==
    /\ 2 <= x /\ x < width - 2
    /\ 2 <= y /\ y < height - 2

\* The grid after the solid fill with palette[0] (alpha included) and the
\* shape loop; body is the colour of an npc's body.
ShapeGrid(config, palette, body) ==
    LET width == config.size[1]
        height == config.size[2]
        base_color == palette[1]
    IN  [y \in 0..(height - 1) |-> [x \in 0..(width - 1) |->
            IF width >= 8 /\ height >= 8 /\ InInset(x, y, width, height)
            THEN IF config.type = "npc"
                 THEN (IF 10 * y < 7 * height THEN body ELSE base_color)
                 ELSE (IF Len(palette) > 1 THEN palette[2] ELSE base_color)
            ELSE base_color]]

\* detect_edges' grayscale of a pixel, times 1000.
Gray(pixel) == 299 * pixel[1] + 587 * pixel[2] + 114 * pixel[3]

\* np.pad(gray, 1, mode='edge') read at column x and row y of the unpadded
\* grid, either of which may be one step outside it.
Padded(g, width, height, x, y) ==
    Gray(g[Max(0, Min(y, height - 1))][Max(0, Min(x, width - 1))])

\* np.sum(region * kernel_x) and np.sum(region * kernel_y), times 1000.
SobelX(g, width, height, x, y) ==
    (Padded(g, width, height, x + 1, y - 1) + 2 * Padded(g, width, height, x + 1, y)
        + Padded(g, width, height, x + 1, y + 1))
    - (Padded(g, width, height, x - 1, y - 1) + 2 * Padded(g, width, height, x - 1, y)
        + Padded(g, width, height, x - 1, y + 1))

SobelY(g, width, height, x, y) ==
    (Padded(g, width, height, x - 1, y + 1) + 2 * Padded(g, width, height, x, y + 1)
        + Padded(g, width, height, x + 1, y + 1))
    - (Padded(g, width, height, x - 1, y - 1) + 2 * Padded(g, width, height, x, y - 1)
        + Padded(g, width, height, x + 1, y - 1))

\* edges > 50 for edges = clip(sqrt(ex^2 + ey^2), 0, 255) truncated to uint8,
\* i.e. sqrt(ex^2 + ey^2) >= 51, with a = |ex| * 1000 and b = |ey| * 1000.
\* Below 51000 the squares are summed in base 1000 to stay within 32 bits.
EdgeOver50(a, b) ==
    IF a >= 51000 \/ b >= 51000 THEN TRUE
    ELSE LET a1 == a \div 1000
             a0 == a % 1000
             b1 == b \div 1000
             b0 == b % 1000
         IN  (a1 * a1 + b1 * b1)
                + ((2000 * (a1 * a0 + b1 * b0) + a0 * a0 + b0 * b0) \div 1000000) >= 2601

\* outline_mask[y, x] of step 4.
outline_mask(g, width, height, x, y) ==
    LET ex == SobelX(g, width, height, x, y)
        ey == SobelY(g, width, height, x, y)
    IN  EdgeOver50(IF ex < 0 THEN 0 - ex ELSE ex, IF ey < 0 THEN 0 - ey ELSE ey)

\* Step 4: props, furniture and clutter get an opaque black outline where the
\* mask, computed on the grid as it was before the outline, is set.
Outline(config, g) ==
    LET width == config.size[1]
        height == config.size[2]
    IN  IF config.type \in OutlinedTypes
        THEN [y \in 0..(height - 1) |-> [x \in 0..(width - 1) |->
                IF outline_mask(g, width, height, x, y) THEN <<0, 0, 0, 255>> ELSE g[y][x]]]
        ELSE g

\* generate_pixel_grid(config, variant_idx) for the shape family: the grids the
\* call can return (one per outcome of the truncations in rotate_hue).
PixelGrids(config, variant_idx) ==
    UNION {{Outline(config, ShapeGrid(config, palette, body)) : body \in BodyColours(palette)} :
              palette \in VariantPalettes(config, variant_idx)}

(***************************************************************************)
(* validate_config                                                         *)
(***************************************************************************)
\* An error message: the asset it names, the rule violated and the two values
\* the message reports.
Message(asset_name, rule, a, b) == [asset |-> asset_name, rule |-> rule, a |-> a, b |-> b]

MinContrastWeak(asset_type) == 18

\* min_contrast by asset type, in tenths.
MinContrast(asset_type) ==
    IF asset_type = "tile" THEN 15
    ELSE IF asset_type = "npc" THEN 20
    ELSE 18

\* Check 1: size divisible by 4.
SizeErrors(asset_name, size) ==
    IF size[1] % 4 # 0 \/ size[2] % 4 # 0
    THEN <<Message(asset_name, "divisible", size[1], size[2])>>
    ELSE <<>>

\* Check 2: mobile GPU limit.
MaxDimErrors(asset_name, size) ==
    IF Max(size[1], size[2]) > 128
    THEN <<Message(asset_name, "max_dimension", Max(size[1], size[2]), 128)>>
    ELSE <<>>

\* Check 3: the loop over range(len(palette) - 1), from index i (1-based) on.
RECURSIVE ContrastLoop(_, _, _, _)
ContrastLoop(asset_name, palette, min_contrast, i) ==
    IF i > Len(palette) - 1 THEN <<>>
    ELSE LET ratio == check_contrast_ratio(palette[i], palette[i + 1])
             here == IF RatioBelow(ratio, min_contrast)
                     THEN <<Message(asset_name, "contrast", FormatRatio(ratio), min_contrast)>>
                     ELSE <<>>
         IN  here \o ContrastLoop(asset_name, palette, min_contrast, i + 1)

ContrastErrors(asset_name, asset_data) ==
    IF Len(asset_data.palette) > 1
    THEN ContrastLoop(asset_name, asset_data.palette, MinContrast(asset_data.type), 1)
    ELSE <<>>

\* The body of validate_config's loop for one asset.
AssetErrors(asset_data) ==
    SizeErrors(asset_data.name, asset_data.size)
        \o MaxDimErrors(asset_data.name, asset_data.size)
        \o ContrastErrors(asset_data.name, asset_data)

RECURSIVE ValidateFrom(_, _)
ValidateFrom(assets, i) ==
    IF i > Len(assets) THEN <<>>
    ELSE AssetErrors(assets[i]) \o ValidateFrom(assets, i + 1)

\* A validator that returns at the first asset with a violation.
validate_configFirstOnly(assets) ==
    LET bad == {i \in 1..Len(assets) : AssetErrors(assets[i]) # <<>>}
    IN  IF bad = {} THEN <<>>
        ELSE AssetErrors(assets[CHOOSE i \in bad : \A j \in bad : i <= j])

\* validate_config(config_data): the errors of every asset, in document order.
validate_config(assets) == ValidateFrom(assets, 1)

(***************************************************************************)
(* Dicts, names                                                            *)
(***************************************************************************)
\* key in d, for a dict d of entries with a name field.
HasKey(d, name) == \E i \in 1..Len(d) : d[i].name = name

\* d[key]
Lookup(d, name) == d[CHOOSE i \in 1..Len(d) : d[i].name = name]

\* d[entry.name] = entry: an existing key keeps its position, a new one is appended.
DictSet(d, entry) ==
    IF HasKey(d, entry.name)
    THEN [i \in 1..Len(d) |-> IF d[i].name = entry.name THEN entry ELSE d[i]]
    ELSE Append(d, entry)

\* "_variant_" in name
HasVariantMarker(name) == \E i \in 1..Len(name) : name[i] = "_variant_"

\* name.split("_variant_")[0]
SplitFirst(name) ==
    LET first == CHOOSE i \in 1..Len(name) :
                    name[i] = "_variant_" /\ \A j \in 1..(i - 1) : name[j] # "_variant_"
    IN  SubSeq(name, 1, first - 1)

\* pack_sprites's base_name of a sprite name that keeps the whole name.
BaseNameWhole(name) == name

\* pack_sprites: base_name of a sprite name.
BaseName(name) == IF HasVariantMarker(name) THEN SplitFirst(name) ELSE name

\* main: variant_name = f"{name}_variant_{i}"
VariantName(name, i) == name \o <<"_variant_", ToString(i)>>

(***************************************************************************)
(* parse_config, generate_pixel_grid and main's generation loop            *)
(***************************************************************************)
\* parse_config's AssetConfig of one document entry, with the defaults of
\* data.get("anchor", [0.5, 0.5]) and data.get("variants", 1).
AssetConfig(data) ==
    [name |-> data.name,
     type |-> data.type,
     size |-> data.size,
     palette |-> data.palette,
     anchor |-> IF data.anchor = <<>> THEN <<5, 5>> ELSE data.anchor,
     variants |-> IF data.variants = <<>> THEN 1 ELSE data.variants[1]]

\* parse_config(config_data): name -> AssetConfig, in document order.
parse_config(assets) == [i \in 1..Len(assets) |-> AssetConfig(assets[i])]

\* generate_pixel_grid(config, variant_idx): the grid's shape (height, width);
\* its pixels are a function of the config and the variant index, which the
\* grid carries as src and variant.
generate_pixel_grid(config, variant_idx) ==
    [h |-> config.size[2], w |-> config.size[1], src |-> config.name, variant |-> variant_idx]

\* The variant indices main generates for a config: range(1, config.variants)
\* for an npc with variants > 1.
VariantRange(config) ==
    IF config.type = "npc" /\ config.variants > 1 THEN 1..(config.variants - 1) ELSE {}

\* all_sprites[variant_name] = generate_pixel_grid(config, i) for i from `i` on.
RECURSIVE VariantLoop(_, _, _)
VariantLoop(sprites, config, i) ==
    IF i \notin VariantRange(config) THEN sprites
    ELSE VariantLoop(
            DictSet(sprites, [name |-> VariantName(config.name, i),
                              grid |-> generate_pixel_grid(config, i)]),
            config, i + 1)

\* main's loop over configs.items(), from position k on.
RECURSIVE GenerateLoop(_, _, _)
GenerateLoop(sprites, cfgs, k) ==
    IF k > Len(cfgs) THEN sprites
    ELSE LET config == cfgs[k]
             withBase == DictSet(sprites, [name |-> config.name,
                                           grid |-> generate_pixel_grid(config, 0)])
         IN  GenerateLoop(VariantLoop(withBase, config, 1), cfgs, k + 1)

\* The number of generate_pixel_grid invocations of that loop.
RECURSIVE GenerateCount(_, _)
GenerateCount(cfgs, k) ==
    IF k > Len(cfgs) THEN 0
    ELSE 1 + Cardinality(VariantRange(cfgs[k])) + GenerateCount(cfgs, k + 1)

(***************************************************************************)
(* pack_sprites                                                            *)
(***************************************************************************)
\* int.bit_length of k (of its absolute value, as Python defines it).
RECURSIVE bit_length(_)
bit_length(k) ==
    IF k < 0 THEN bit_length(0 - k)
    ELSE IF k = 0 THEN 0
    ELSE 1 + bit_length(k \div 2)

\* A rounding that keeps int(n) as it is.
next_power_of_2Truncating(num, den) == num \div den

\* next_power_of_2(n) for n = num/den >= 0: 1 << (int(n) - 1).bit_length()
next_power_of_2(num, den) == Pow2(bit_length((num \div den) - 1))

\* floor of the square root of n >= 0
RECURSIVE IsqrtBetween(_, _, _)
IsqrtBetween(n, lo, hi) ==
    IF hi - lo <= 1 THEN lo
    ELSE LET mid == (lo + hi) \div 2
         IN  IF mid * mid <= n THEN IsqrtBetween(n, mid, hi) ELSE IsqrtBetween(n, lo, mid)

Isqrt(n) == IsqrtBetween(n, 0, Min(n, 40000) + 1)

\* total_area: the sum of w * h over the sprites
RECURSIVE TotalArea(_, _)
TotalArea(sprites, i) ==
    IF i > Len(sprites) THEN 0
    ELSE sprites[i].grid.w * sprites[i].grid.h + TotalArea(sprites, i + 1)

\* int(math.sqrt(total_area) * 1.2): floor(sqrt(1.44 * total_area)), which is
\* what the float computation yields for every total_area up to 200000.
AtlasSizeInt(total_area) == Isqrt((144 * total_area) \div 100)

\* atlas_size = next_power_of_2(int(atlas_size_float))
InitialAtlasSize(sprites) == next_power_of_2(AtlasSizeInt(TotalArea(sprites, 1)), 1)

\* Inserting e after the entries at least as tall (stable = FALSE: after the
\* strictly taller ones only).
InsertByHeight(sorted, e, stable) ==
    LET k == Cardinality({i \in 1..Len(sorted) :
                 IF stable THEN sorted[i].grid.h >= e.grid.h
                           ELSE sorted[i].grid.h > e.grid.h})
    IN  SubSeq(sorted, 1, k) \o <<e>> \o SubSeq(sorted, k + 1, Len(sorted))

RECURSIVE SortFrom(_, _, _, _)
SortFrom(sorted, sprites, i, stable) ==
    IF i > Len(sprites) THEN sorted
    ELSE SortFrom(InsertByHeight(sorted, sprites[i], stable), sprites, i + 1, stable)

\* A descending sort that reverses the order of equal heights.
SortedSpritesUnstable(sprites) == SortFrom(<<>>, sprites, 1, FALSE)

\* sorted(sprites.items(), key=height, reverse=True): descending and stable.
SortedSprites(sprites) == SortFrom(<<>>, sprites, 1, TRUE)

\* A row wrap that does not advance current_y.
PlaceCursorNoAdvance(x, y, rh, size, w, h) ==
    LET wrap == x + w > size
    IN  [x |-> IF wrap THEN 0 ELSE x, y |-> y, rh |-> IF wrap THEN 0 ELSE rh,
         size |-> IF y + h > size THEN next_power_of_2(size * 3, 2) ELSE size]

\* The two checks at the top of the loop body for a sprite of w x h: the row
\* wrap, then the growth of the atlas to next_power_of_2(atlas_size * 1.5).
PlaceCursor(x, y, rh, size, w, h) ==
    LET wrap == x + w > size
        x1 == IF wrap THEN 0 ELSE x
        y1 == IF wrap THEN y + rh ELSE y
        rh1 == IF wrap THEN 0 ELSE rh
        size1 == IF y1 + h > size THEN next_power_of_2(size * 3, 2) ELSE size
    IN  [x |-> x1, y |-> y1, rh |-> rh1, size |-> size1]

\* The frame record of a sprite placed at (x, y).
FrameRecord(sprite, x, y, anchor) ==
    [name |-> sprite.name,
     frame |-> [x |-> x, y |-> y, w |-> sprite.grid.w, h |-> sprite.grid.h],
     rotated |-> FALSE,
     trimmed |-> FALSE,
     sourceSize |-> [w |-> sprite.grid.w, h |-> sprite.grid.h],
     anchor |-> anchor,
     grid |-> sprite.grid]

\* pack_sprites up to the loop: the sort, the area and the initial atlas.
PackBegin ==
    /\ pc = "pack"
    /\ sorted_sprites' = SortedSprites(all_sprites)
    /\ atlas_size' = InitialAtlasSize(all_sprites)
    /\ atlas' = [width |-> InitialAtlasSize(all_sprites), height |-> InitialAtlasSize(all_sprites)]
    /\ frames' = <<>>
    /\ current_x' = 0
    /\ current_y' = 0
    /\ row_height' = 0
    /\ idx' = 1
    /\ calls' = calls \cup {"pack_sprites"}
    /\ pc' = "packing"
    /\ UNCHANGED <<config_data, errors, configs, all_sprites, grids, manifest, exit_code>>
    /\ UNCHANGED unitvars

\* One iteration of pack_sprites's loop. configs[base_name] raises KeyError
\* when base_name is no key of configs: the exception leaves main uncaught.
PackPlace ==
    /\ pc = "packing"
    /\ idx <= Len(sorted_sprites)
    /\ LET sprite == sorted_sprites[idx]
           c == PlaceCursor(current_x, current_y, row_height, atlas_size,
                            sprite.grid.w, sprite.grid.h)
           base_name == BaseName(sprite.name)
       IN  /\ atlas_size' = c.size
           /\ atlas' = IF c.size # atlas_size
                       THEN [width |-> c.size, height |-> c.size]
                       ELSE atlas
           /\ current_y' = c.y
           /\ IF HasKey(configs, base_name)
              THEN /\ frames' = Append(frames,
                          FrameRecord(sprite, c.x, c.y, Lookup(configs, base_name).anchor))
                   /\ current_x' = c.x + sprite.grid.w
                   /\ row_height' = Max(c.rh, sprite.grid.h)
                   /\ idx' = idx + 1
                   /\ pc' = "packing"
                   /\ exit_code' = exit_code
              ELSE /\ frames' = frames
                   /\ current_x' = c.x
                   /\ row_height' = c.rh
                   /\ idx' = idx
                   /\ pc' = "raised"
                   /\ exit_code' = 1
    /\ UNCHANGED <<config_data, errors, configs, all_sprites, grids, calls,
                   sorted_sprites, manifest>>
    /\ UNCHANGED unitvars

\* return atlas, frames
PackReturn ==
    /\ pc = "packing"
    /\ idx > Len(sorted_sprites)
    /\ pc' = "packed"
    /\ UNCHANGED <<config_data, errors, configs, all_sprites, grids, calls,
                   packvars, manifest, exit_code>>
    /\ UNCHANGED unitvars

\* write_output(atlas, frames, output_dir): the manifest, with the atlas's
\* width and height as meta.size; main then returns.
WriteOutput ==
    /\ pc = "packed"
    /\ manifest' = <<[frames |-> frames,
                      size |-> [w |-> atlas.width, h |-> atlas.height]]>>
    /\ calls' = calls \cup {"write_output"}
    /\ exit_code' = 0
    /\ pc' = "done"
    /\ UNCHANGED <<config_data, errors, configs, all_sprites, grids, packvars>>
    /\ UNCHANGED unitvars

(***************************************************************************)
(* main                                                                    *)
(***************************************************************************)
\* errors = validate_config(config_data)
Validate ==
    /\ pc = "start"
    /\ errors' = validate_config(config_data)
    /\ calls' = calls \cup {"validate_config"}
    /\ pc' = "validated"
    /\ UNCHANGED <<config_data, configs, all_sprites, grids, packvars, manifest, exit_code>>
    /\ UNCHANGED unitvars

\* A gate that never closes.
ValidationFailedNever == FALSE

\* if errors:
ValidationFailed == errors # <<>>

\* The errors are printed and sys.exit(1) ends the run.
ExitOnErrors ==
    /\ pc = "validated"
    /\ ValidationFailed
    /\ exit_code' = 1
    /\ pc' = "exit"
    /\ UNCHANGED <<config_data, errors, configs, all_sprites, grids, calls, packvars, manifest>>
    /\ UNCHANGED unitvars

\* configs = parse_config(config_data)
ParseConfig ==
    /\ pc = "validated"
    /\ ~ValidationFailed
    /\ configs' = parse_config(config_data)
    /\ calls' = calls \cup {"parse_config"}
    /\ pc' = "generate"
    /\ UNCHANGED <<config_data, errors, all_sprites, grids, packvars, manifest, exit_code>>
    /\ UNCHANGED unitvars

\* The generation loop over configs.items().
GenerateSprites ==
    /\ pc = "generate"
    /\ all_sprites' = GenerateLoop(<<>>, configs, 1)
    /\ grids' = grids + GenerateCount(configs, 1)
    /\ calls' = IF GenerateCount(configs, 1) > 0
                THEN calls \cup {"generate_pixel_grid"} ELSE calls
    /\ pc' = "pack"
    /\ UNCHANGED <<config_data, errors, configs, packvars, manifest, exit_code>>
    /\ UNCHANGED unitvars

(***************************************************************************)
(* Inputs                                                                  *)
(***************************************************************************)
Names == {<<"a">>, <<"b">>, <<"a", "_variant_", "1">>}
Types == {"tile", "npc", "prop"}
Anchors == {<<>>, <<5, 9>>}
VariantsOpt == {<<>>} \cup {<<v>> : v \in 2..MaxVariants}

\* d is a document: its entries have distinct names.
DistinctNames(d) == \A i, j \in 1..Len(d) : i # j => d[i].name # d[j].name

\* others with e inserted at position s.
InsertAt(others, e, s) ==
    SubSeq(others, 1, s - 1) \o <<e>> \o SubSeq(others, s, Len(others))

\* Documents for a run of main: one valid and one invalid size, a palette
\* that passes the contrast rule of every type.
MainAssets ==
    [name : Names, type : Types, size : {<<4, 4>>, <<6, 4>>},
     palette : {<<Black, Grey90>>}, anchor : Anchors, variants : VariantsOpt]

\* Documents for validate_config: one asset drawn from ValidateAssets (sizes
\* that violate neither, either or both size rules, every palette of at most
\* MaxPalette colours), at any position among assets drawn from OtherAssets
\* (one that violates nothing, ones that violate the divisibility rule, the
\* contrast rule or both).
Palettes == UNION {[1..k -> Colours] : k \in 1..MaxPalette}

ValidateAssets ==
    [name : Names, type : Types,
     size : {<<128, 128>>, <<6, 4>>, <<132, 8>>, <<4, 130>>},
     palette : Palettes, anchor : {<<>>}, variants : {<<>>}]

OtherAssets ==
    [name : Names, type : {"prop"}, size : {<<4, 4>>, <<6, 4>>},
     palette : {<<Black, Grey90>>, <<Black, Black>>}, anchor : {<<>>}, variants : {<<>>}]

\* Sprite sets handed to pack_sprites directly, with a config for each.
Dims == {1, 4, 8, 128}

SpriteName(i) == <<"s", ToString(i)>>

SpritesOf(shapes) ==
    [i \in 1..Len(shapes) |->
        [name |-> SpriteName(i),
         grid |-> [h |-> shapes[i].h, w |-> shapes[i].w, src |-> SpriteName(i), variant |-> 0]]]

ConfigsOf(shapes) ==
    [i \in 1..Len(shapes) |->
        [name |-> SpriteName(i), type |-> "prop", size |-> <<shapes[i].w, shapes[i].h>>,
         palette |-> <<Black>>, anchor |-> <<5, 5>>, variants |-> 1]]

(***************************************************************************)
(* Specifications                                                          *)
(***************************************************************************)
\* No call of rotate_hue on its own is under way.
HueIdle ==
    /\ hex_color = <<>>
    /\ degrees = 0
    /\ new_rgb = <<>>

\* No process is deriving a tile seed.
SeedIdle ==
    /\ tile = <<>>
    /\ str_hash = <<>>
    /\ seed = <<>>

\* No call of generate_pixel_grid on its own.
GridIdle ==
    /\ grid_config = <<>>
    /\ grid_variant = 0
    /\ grid = <<>>

UnitIdle == HueIdle /\ SeedIdle /\ GridIdle

NotPacking ==
    /\ sorted_sprites = <<>>
    /\ idx = 0
    /\ atlas = [width |-> 0, height |-> 0]
    /\ atlas_size = 0
    /\ current_x = 0
    /\ current_y = 0
    /\ row_height = 0
    /\ frames = <<>>

\* main, after the document is loaded.
Init ==
    /\ pc = "start"
    /\ \E k \in 0..MaxAssets :
          \E d \in [1..k -> MainAssets] : DistinctNames(d) /\ config_data = d
    /\ errors = <<>>
    /\ configs = <<>>
    /\ all_sprites = <<>>
    /\ grids = 0
    /\ calls = {}
    /\ NotPacking
    /\ manifest = <<>>
    /\ exit_code = -1
    /\ UnitIdle

Next ==
    \/ Validate
    \/ ExitOnErrors
    \/ ParseConfig
    \/ GenerateSprites
    \/ PackBegin
    \/ PackPlace
    \/ PackReturn
    \/ WriteOutput

Spec == Init /\ [][Next]_vars

\* validate_config on a document.
ValidateInit ==
    /\ pc = "start"
    /\ \/ config_data = <<>>
       \/ \E k \in 1..MaxAssets :
            \E others \in [1..(k - 1) -> OtherAssets] :
                \E e \in ValidateAssets :
                    \E s \in 1..k :
                        /\ DistinctNames(InsertAt(others, e, s))
                        /\ config_data = InsertAt(others, e, s)
    /\ errors = <<>>
    /\ configs = <<>>
    /\ all_sprites = <<>>
    /\ grids = 0
    /\ calls = {}
    /\ NotPacking
    /\ manifest = <<>>
    /\ exit_code = -1
    /\ UnitIdle

ValidateNext == Validate

ValidateSpec == ValidateInit /\ [][ValidateNext]_vars

\* pack_sprites on a sprite set, and write_output on what it returns.
PackInit ==
    /\ pc = "pack"
    /\ config_data = <<>>
    /\ errors = <<>>
    /\ \E k \in 0..MaxSprites :
          \E shapes \in [1..k -> [w : Dims, h : Dims]] :
              /\ all_sprites = SpritesOf(shapes)
              /\ configs = ConfigsOf(shapes)
    /\ grids = 0
    /\ calls = {}
    /\ NotPacking
    /\ manifest = <<>>
    /\ exit_code = -1
    /\ UnitIdle

PackNext ==
    \/ PackBegin
    \/ PackPlace
    \/ PackReturn
    \/ WriteOutput

PackSpec == PackInit /\ [][PackNext]_vars

(***************************************************************************)
(* rotate_hue on its own                                                   *)
(***************************************************************************)
\* The pipeline is not running.
PipelineIdle ==
    /\ pc = "idle"
    /\ config_data = <<>>
    /\ errors = <<>>
    /\ configs = <<>>
    /\ all_sprites = <<>>
    /\ grids = 0
    /\ calls = {}
    /\ NotPacking
    /\ manifest = <<>>
    /\ exit_code = -1

pipelinevars == <<pc, config_data, errors, configs, all_sprites, grids, calls,
                  packvars, manifest, exit_code>>

ChannelValues == {0, 30, 74, 140, 255}
DegreeChoices == {30, 360}

\* A call rotate_hue(hex_color, degrees) is about to run.
HueInit ==
    /\ PipelineIdle
    /\ \E r, g, b \in ChannelValues : hex_color = << <<r, g, b, 255>> >>
    /\ degrees \in DegreeChoices
    /\ new_rgb = <<>>
    /\ SeedIdle
    /\ GridIdle

\* The call returns.
RotateHue ==
    /\ hex_color # <<>>
    /\ new_rgb = <<>>
    /\ \E c \in rotate_hue(hex_color[1], degrees) : new_rgb' = <<c>>
    /\ UNCHANGED <<hex_color, degrees, seedvars, gridvars, pipelinevars>>

HueNext == RotateHue

HueSpec == HueInit /\ [][HueNext]_vars

Abs(n) == IF n < 0 THEN 0 - n ELSE n

\* C12: rotate_hue(c, 360) returns c up to truncation: each of the R, G and B
\* channels of the result is within 1 of that channel of c.
C12_FullTurnIsIdentity ==
    (new_rgb # <<>> /\ degrees = 360) =>
        \A i \in 1..3 : Abs(new_rgb[1][i] - hex_color[1][i]) <= 1

(***************************************************************************)
(* The tile seed in two processes                                          *)
(***************************************************************************)
\* generate_pixel_grid's seed for a tile: config.noise_seed, or else
\* hash(config.name) % 1000 with the hash() of the running interpreter.
TileSeed(config, hash) ==
    IF config.noise_seed = <<>>
    THEN hash[config.name] % 1000
    ELSE config.noise_seed[1]

\* Two runs of the pipeline, each its own process.
Runs == {1, 2}
NoiseSeeds == {<<>>, <<7>>, <<42>>}
\* Values of hash(): signed integers, three of them equal modulo 1000.
HashValues == {7, 42, 1042, -958}

\* Both processes are about to generate the same tile. hash() of a str is keyed
\* by a secret the interpreter draws at start-up (unless PYTHONHASHSEED fixes
\* it), so each process has its own hash function, fixed while it runs.
SeedInit ==
    /\ PipelineIdle
    /\ HueIdle
    /\ GridIdle
    /\ \E n \in Names, ns \in NoiseSeeds : tile = << [name |-> n, noise_seed |-> ns] >>
    /\ str_hash \in [Runs -> [Names -> HashValues]]
    /\ seed = [p \in Runs |-> <<>>]

\* Process p reaches the seed derivation of generate_pixel_grid.
DeriveSeed(p) ==
    /\ tile # <<>>
    /\ seed[p] = <<>>
    /\ seed' = [seed EXCEPT ![p] = <<TileSeed(tile[1], str_hash[p])>>]
    /\ UNCHANGED <<tile, str_hash, huevars, gridvars, pipelinevars>>

SeedNext == \E p \in Runs : DeriveSeed(p)

SeedSpec == SeedInit /\ [][SeedNext]_vars

\* C11: for a tile with no noise_seed the seed depends on the name only, so
\* two processes generating the same tile derive the same seed.
C11_SeedFromNameOnly ==
    (tile # <<>> /\ tile[1].noise_seed = <<>> /\ \A p \in Runs : seed[p] # <<>>) =>
        \A p, q \in Runs : seed[p] = seed[q]

(***************************************************************************)
(* generate_pixel_grid on its own                                          *)
(***************************************************************************)
\* "#4a1e1e" and "#5a5a5a00".
Maroon == <<74, 30, 30, 255>>
ClearGrey == <<90, 90, 90, 0>>
GridColours == {Black, Grey49, Maroon, ClearGrey}
GridPalettes == UNION {[1..k -> GridColours] : k \in 1..2}
GridSizes == {<<4, 4>>, <<8, 8>>, <<12, 8>>, <<8, 12>>}

\* A call generate_pixel_grid(config, variant_idx) on a shape-family asset is
\* about to run; main passes a variant index above 0 for an npc only.
GridInit ==
    /\ PipelineIdle
    /\ HueIdle
    /\ SeedIdle
    /\ \E t \in ShapeTypes, sz \in GridSizes, pal \in GridPalettes :
          grid_config = << [name |-> <<"a">>, type |-> t, size |-> sz, palette |-> pal] >>
    /\ grid_variant \in (IF grid_config[1].type = "npc" THEN {0, 1} ELSE {0})
    /\ grid = <<>>

\* The call returns.
GenerateGrid ==
    /\ grid_config # <<>>
    /\ grid = <<>>
    /\ \E g \in PixelGrids(grid_config[1], grid_variant) : grid' = <<g>>
    /\ UNCHANGED <<grid_config, grid_variant, huevars, seedvars, pipelinevars>>

GridNext == GenerateGrid

GridSpec == GridInit /\ [][GridNext]_vars

\* A grid has been generated for an asset of at least 8 x 8.
GridOfShape ==
    /\ grid # <<>>
    /\ grid_config[1].size[1] >= 8
    /\ grid_config[1].size[2] >= 8

\* The pixel at column x and row y lies in the 2-pixel border, resp. in its
\* outer ring.
InBorder(x, y) ==
    \/ x < 2 \/ x >= grid_config[1].size[1] - 2
    \/ y < 2 \/ y >= grid_config[1].size[2] - 2

InOuterRing(x, y) ==
    \/ x < 1 \/ x >= grid_config[1].size[1] - 1
    \/ y < 1 \/ y >= grid_config[1].size[2] - 1

GridPoints == (0..(grid_config[1].size[1] - 1)) \X (0..(grid_config[1].size[2] - 1))

\* The colours the solid fill can have: palette[0] after step 2.
BaseFills == {p[1] : p \in VariantPalettes(grid_config[1], grid_variant)}

\* C15 as stated: for a shape-family asset of at least 8 x 8, every pixel of
\* the 2-pixel border of the generated grid has alpha 0.
C15_BorderTransparent ==
    GridOfShape =>
        \A xy \in GridPoints : InBorder(xy[1], xy[2]) => grid[1][xy[2]][xy[1]][4] = 0

\* C15, amended: for a shape-family asset of at least 8 x 8, every pixel of the
\* 2-pixel border keeps the solid fill, palette[0] with its own alpha (255 for a
\* 6-digit colour and for a rotated variant), except that on a prop, furniture
\* or clutter a pixel of the border's inner ring may be opaque black outline.
C15_BorderKeepsFill ==
    GridOfShape =>
        \E base_color \in BaseFills :
            \A xy \in GridPoints : InBorder(xy[1], xy[2]) =>
                \/ grid[1][xy[2]][xy[1]] = base_color
                \/ /\ grid_config[1].type \in OutlinedTypes
                   /\ ~InOuterRing(xy[1], xy[2])
                   /\ grid[1][xy[2]][xy[1]] = <<0, 0, 0, 255>>

\* An 8 x 8 prop whose border shows both cases: the corner keeps the opaque
\* fill and a pixel of the inner ring is outlined.
C15_Witness ==
    /\ GridOfShape
    /\ grid_config[1].type = "prop"
    /\ grid_config[1].palette[1] = Maroon
    /\ grid[1][0][0] = Maroon
    /\ grid[1][3][1] = <<0, 0, 0, 255>>

(***************************************************************************)
(* Properties                                                              *)
(***************************************************************************)
InPack == pc \in {"packing", "packed", "done", "raised"}
Returned == pc \in {"packed", "done"}

ValidDim(d) == d > 0 /\ d % 4 = 0 /\ d <= 128

AllSpritesValid ==
    \A i \in 1..Len(all_sprites) :
        ValidDim(all_sprites[i].grid.w) /\ ValidDim(all_sprites[i].grid.h)

\* The atlas side a caller sees: the returned atlas's, and meta.size once written.
FrameInside(f, side) ==
    /\ f.x >= 0
    /\ f.y >= 0
    /\ f.x + f.w <= side
    /\ f.y + f.h <= side

\* C1: when pack_sprites has returned for a sprite set whose widths and heights
\* are all positive multiples of 4 up to 128, every recorded frame lies inside
\* the square of the returned atlas's side, which is the size the manifest reports.
C1_FramesInsideAtlas ==
    (Returned /\ AllSpritesValid) =>
        /\ \A i \in 1..Len(frames) :
              FrameInside(frames[i].frame, atlas.width) /\ FrameInside(frames[i].frame, atlas.height)
        /\ pc = "done" =>
              \A i \in 1..Len(manifest[1].frames) :
                  /\ FrameInside(manifest[1].frames[i].frame, manifest[1].size.w)
                  /\ FrameInside(manifest[1].frames[i].frame, manifest[1].size.h)

\* Two rectangles share a region of positive area.
Overlap(f, g) ==
    /\ f.x < g.x + g.w
    /\ g.x < f.x + f.w
    /\ f.y < g.y + g.h
    /\ g.y < f.y + f.h

\* C2: no two distinct recorded frames overlap in a region of positive area, at
\* any point of the walk, row wraps and atlas growth included.
C2_NoOverlap ==
    \A i, j \in 1..Len(frames) :
        i # j => ~Overlap(frames[i].frame, frames[j].frame)

\* A walk that has returned three frames after a row wrap and a growth of the atlas.
C2_Witness ==
    /\ pc = "packed"
    /\ Len(frames) >= 3
    /\ atlas_size > InitialAtlasSize(all_sprites)
    /\ \E i \in 1..Len(frames) : frames[i].frame.y > 0
    /\ \E i \in 1..Len(frames) : frames[i].frame.x > 0

RECURSIVE IsPowerOfTwo(_)
IsPowerOfTwo(n) == n = 1 \/ (n > 1 /\ n % 2 = 0 /\ IsPowerOfTwo(n \div 2))

\* C3: from the initial allocation on, growth events included, the atlas is
\* square and its side is a power of two, for every sprite set, the empty one too.
C3_SquarePowerOfTwo ==
    InPack =>
        /\ atlas.width = atlas.height
        /\ atlas.width = atlas_size
        /\ IsPowerOfTwo(atlas_size)

\* The atlas has grown during the walk.
C3_Witness ==
    /\ pc = "packing"
    /\ frames # <<>>
    /\ atlas_size > InitialAtlasSize(all_sprites)
    /\ IsPowerOfTwo(atlas_size)

\* The position of the sprite called name in the input mapping.
InputPos(name) == CHOOSE i \in 1..Len(all_sprites) : all_sprites[i].name = name

\* C7: sprites are placed in non-increasing order of height, and sprites of
\* equal height in the order of their insertion into the input mapping.
C7_PlacementOrder ==
    \A i, j \in 1..Len(frames) :
        i < j =>
            /\ frames[i].frame.h >= frames[j].frame.h
            /\ frames[i].frame.h = frames[j].frame.h =>
                  InputPos(frames[i].name) < InputPos(frames[j].name)

\* All sprites placed, where the sort moved a taller sprite ahead of a shorter
\* one inserted before it, and two sprites have the same height.
C7_Witness ==
    /\ pc = "packed"
    /\ \E i, j \in 1..Len(frames) :
          i < j /\ frames[i].frame.h = frames[j].frame.h
    /\ \E i, j \in 1..Len(frames) :
          i < j /\ InputPos(frames[i].name) > InputPos(frames[j].name)

GenerationCalls == {"parse_config", "generate_pixel_grid", "pack_sprites", "write_output"}

\* C4: generation starts only after validate_config returned no error; once it
\* has returned errors the run is at the gate or has exited with code 1, none of
\* parse_config, generate_pixel_grid, pack_sprites, write_output has been
\* invoked, no grid exists and no manifest is written.
C4_ValidationGate ==
    /\ (calls \cap GenerationCalls # {} \/ grids > 0 \/ manifest # <<>>) =>
          ("validate_config" \in calls /\ errors = <<>>)
    /\ (pc # "start" /\ errors # <<>>) =>
          /\ pc \in {"validated", "exit"}
          /\ pc = "exit" => exit_code = 1
          /\ calls \cap GenerationCalls = {}
          /\ grids = 0
          /\ all_sprites = <<>>
          /\ manifest = <<>>

\* A run that exited on errors although one of its assets violates no rule.
C4_Witness ==
    /\ pc = "exit"
    /\ exit_code = 1
    /\ errors # <<>>
    /\ \E i \in 1..Len(config_data) : AssetErrors(config_data[i]) = <<>>

\* The returned list has a message of that rule naming the asset.
HasMessage(asset_name, rule) ==
    \E k \in 1..Len(errors) : errors[k].asset = asset_name /\ errors[k].rule = rule

\* C5: for each asset of the document, the returned list has a divisibility
\* message naming it iff its width or height is no multiple of 4, and a
\* max-dimension message naming it iff max(width, height) > 128, whatever else
\* is violated.
C5_EveryAssetExamined ==
    pc = "validated" =>
        \A i \in 1..Len(config_data) :
            LET a == config_data[i]
            IN  /\ HasMessage(a.name, "divisible") <=>
                      (a.size[1] % 4 # 0 \/ a.size[2] % 4 # 0)
                /\ HasMessage(a.name, "max_dimension") <=>
                      (a.size[1] > 128 \/ a.size[2] > 128)

\* The first asset violates the divisibility and the contrast rule, the second
\* one the max-dimension rule only, and both are reported.
C5_Witness ==
    /\ pc = "validated"
    /\ Len(config_data) = 2
    /\ HasMessage(config_data[1].name, "divisible")
    /\ HasMessage(config_data[1].name, "contrast")
    /\ ~HasMessage(config_data[1].name, "max_dimension")
    /\ HasMessage(config_data[2].name, "max_dimension")
    /\ ~HasMessage(config_data[2].name, "divisible")

\* The threshold the claim states for a type, in tenths.
ClaimedThreshold(type) ==
    CASE type = "tile" -> 15
      [] type = "npc" -> 20
      [] OTHER -> 18

\* The consecutive palette pairs of an asset below the claimed threshold.
LowPairs(a) ==
    {i \in 1..(Len(a.palette) - 1) :
        RatioBelow(check_contrast_ratio(a.palette[i], a.palette[i + 1]),
                   ClaimedThreshold(a.type))}

ContrastMessages(asset_name) ==
    {k \in 1..Len(errors) : errors[k].asset = asset_name /\ errors[k].rule = "contrast"}

RECURSIVE ClaimedGrids(_, _)
ClaimedGrids(doc, i) ==
    IF i > Len(doc) THEN 0
    ELSE LET v == IF doc[i].variants = <<>> THEN 1 ELSE doc[i].variants[1]
         IN  1 + (IF doc[i].type = "npc" /\ v > 1 THEN v - 1 ELSE 0)
               + ClaimedGrids(doc, i + 1)

\* C8: a run on a configuration that passed validation ends with one grid
\* generated per asset, plus variants - 1 per npc with variants > 1, and with a
\* manifest of one frame entry per generated grid.
C8_OneFramePerGrid ==
    pc = "done" =>
        /\ grids = ClaimedGrids(config_data, 1)
        /\ Len(manifest[1].frames) = grids

\* C9: every recorded frame carries the anchor of the asset its grid was
\* generated from, base sprite or variant, whatever the asset is called.
C9_AnchorOfSource ==
    \A i \in 1..Len(frames) :
        /\ HasKey(configs, frames[i].grid.src)
        /\ frames[i].anchor = Lookup(configs, frames[i].grid.src).anchor

\* C10: pack_sprites never raises, and returns one frame per sprite.
C10_PackNeverFails ==
    /\ pc # "raised"
    /\ Returned => Len(frames) = Len(all_sprites)

\* The smallest power of two p with p >= sqrt(1.2 * area), i.e. 10 * p * p >= 12 * area.
ClaimedInitialSide(area) ==
    Pow2(CHOOSE k \in 0..12 :
            /\ 10 * Pow2(k) * Pow2(k) >= 12 * area
            /\ \A j \in 0..(k - 1) : 10 * Pow2(j) * Pow2(j) < 12 * area)

\* C13: the initial atlas side, as pack_sprites allocates it before placing any
\* sprite, is the smallest power of two that is at least sqrt(1.2 * A), A being
\* the sum of width * height over the sprites; stated for the sprite sets a
\* validated configuration yields (non-empty, sides positive multiples of 4 up
\* to 128).
C13_InitialSide ==
    (pc = "packing" /\ idx = 1 /\ frames = <<>> /\ all_sprites # <<>> /\ AllSpritesValid) =>
        atlas_size = ClaimedInitialSide(TotalArea(all_sprites, 1))

\* The cursor after the row-wrap check for a sprite of width w, as the code
\* holds it when it tests the vertical fit.
WrappedX(w) == IF current_x + w > atlas_size THEN 0 ELSE current_x
WrappedY(w) == IF current_x + w > atlas_size THEN current_y + row_height ELSE current_y

====
